---- MODULE Spec2Model ----
(***************************************************************************)
(* Model of the upload store of src/src/store/uploads.ts: the Map of       *)
(* upload records, the asynchronous pipeline processUpload (compress ->    *)
(* transfer -> finalize), cancelUpload, retryUpload, addUploads and the    *)
(* derived aggregate usePendingUploads.                                    *)
(*                                                                         *)
(* JavaScript runs the store on one event loop.  A step of the model is    *)
(* one task: a call of the store's API up to the point where it returns    *)
(* (the synchronous prefix of processUpload included), or the settling of  *)
(* one awaited promise together with the continuation that follows it up   *)
(* to the next await.                                                      *)
(***************************************************************************)
EXTENDS Integers, Sequences, FiniteSets, TLC

\* ---- bounds of the model ----
MaxUploads == 2       \* records ever created
MaxAttempts == 2      \* processUpload invocations ever made
MaxSize == 2          \* largest file size, in bytes
MaxBatch == 2         \* largest batch given to one addUploads call

\* ---- values ----
\* an optional field that is absent reads as undefined
Undefined == -1
\* the result of 0 / 0 in usePendingUploads
NaN == -2

Names == {"a.png"}
Files == [name : Names, size : 0..MaxSize]
Ids == 1..MaxUploads
Settled == {"success", "error", "canceled"}
Status == {"progress"} \cup Settled

\* rejection values the catch block of processUpload tells apart
CanceledError == "CanceledError"
OtherError == "Error"

VARIABLES
  uploads,     \* the Map<string, Upload>: function from identifier to record
  order,       \* insertion order of the Map's keys
  attempts,    \* one entry per processUpload invocation; its index is also
               \* the identity of the AbortController the invocation created
  aborted,     \* the AbortControllers whose signal is aborted
  lateAbort    \* history: controllers first aborted while their record was settled

vars == <<uploads, order, attempts, aborted, lateAbort>>

\* ---- Map and record helpers ----
Range(s) == {s[i] : i \in DOMAIN s}

\* Map.set(k, v): an existing key keeps its value slot, a new key is added
MapSet(m, k, v) == [x \in (DOMAIN m) \cup {k} |-> IF x = k THEN v ELSE m[x]]

\* Map.set's effect on the insertion order of the keys
MapSetOrder(o, k) == IF k \in Range(o) THEN o ELSE Append(o, k)

\* { ...upload, ...data }
Merge(upload, data) ==
  [f \in (DOMAIN upload) \cup (DOMAIN data) |->
     IF f \in DOMAIN data THEN data[f] ELSE upload[f]]

\* NewUpload with the original size left at 0
NewUpload_NoSize(file) ==
  [name |-> file.name,
   file |-> file,
   abortController |-> Undefined,
   status |-> "progress",
   originalSizeInBytes |-> 0,
   uploadSizeInBytes |-> 0,
   compressedSizeInBytes |-> Undefined,
   remoteUrl |-> Undefined]

\* the record addUploads creates for a file
NewUpload(file) ==
  [name |-> file.name,
   file |-> file,
   abortController |-> Undefined,
   status |-> "progress",
   originalSizeInBytes |-> file.size,
   uploadSizeInBytes |-> 0,
   compressedSizeInBytes |-> Undefined,
   remoteUrl |-> Undefined]

\* updateUpload without the check that the record exists
updateUpload_NoGuard(m, uploadId, data) ==
  MapSet(m, uploadId,
         IF uploadId \in DOMAIN m THEN Merge(m[uploadId], data) ELSE data)

\* updateUpload merging into the record as it was created instead of the
\* record the store holds now
updateUpload_FromCreation(m, uploadId, data) ==
  IF uploadId \notin DOMAIN m
    THEN m
    ELSE MapSet(m, uploadId, Merge(NewUpload(m[uploadId].file), data))

\* updateUpload(uploadId, data) applied to the Map m
updateUpload(m, uploadId, data) ==
  IF uploadId \notin DOMAIN m
    THEN m
    ELSE MapSet(m, uploadId, Merge(m[uploadId], data))

\* ResetData without the reset of the compressed size
ResetData_KeepCompressed(abortController) ==
  [uploadSizeInBytes |-> 0,
   remoteUrl |-> Undefined,
   abortController |-> abortController,
   status |-> "progress"]

\* the fields processUpload writes before it starts compressing
ResetData(abortController) ==
  [uploadSizeInBytes |-> 0,
   remoteUrl |-> Undefined,
   compressedSizeInBytes |-> Undefined,
   abortController |-> abortController,
   status |-> "progress"]

\* a catch block that swallows the rejection and leaves the status as it is
CatchStatus_Swallow(error) == "progress"

\* CatchStatus without the test for CanceledError
CatchStatus_NoCancel(error) == "error"

\* the status the catch block of processUpload writes for a rejection
CatchStatus(error) == IF error = CanceledError THEN "canceled" ELSE "error"

\* processUpload(uploadId) up to its first await, on the store st =
\* [uploads, order, attempts]: a fresh AbortController, the reset of the
\* record, and the call of compressImage
ProcessStart(st, uploadId) ==
  IF uploadId \notin DOMAIN st.uploads
    THEN st
    ELSE LET ac == Len(st.attempts) + 1
             upload == st.uploads[uploadId]
         IN [uploads |-> updateUpload(st.uploads, uploadId, ResetData(ac)),
             order |-> st.order,
             attempts |-> Append(st.attempts,
                            [uploadId |-> uploadId,
                             file |-> upload.file,
                             pc |-> "compress",
                             compressedSize |-> Undefined,
                             sent |-> 0])]

\* RandomUUID returning the same identifier every time
RandomUUID_Constant(m) == 1

\* crypto.randomUUID(): an identifier no record has
RandomUUID(m) == Cardinality(DOMAIN m) + 1

\* the loop of addUploads over files[i..]
RECURSIVE AddLoop(_, _, _)
AddLoop(st, files, i) ==
  IF i > Len(files)
    THEN st
    ELSE LET uploadId == RandomUUID(st.uploads)
             added == [uploads |-> MapSet(st.uploads, uploadId, NewUpload(files[i])),
                       order |-> MapSetOrder(st.order, uploadId),
                       attempts |-> st.attempts]
         IN AddLoop(ProcessStart(added, uploadId), files, i + 1)

\* processUpload invocation a returns: its locals are gone
Return(as, a) ==
  [as EXCEPT ![a].pc = "done", ![a].compressedSize = Undefined, ![a].sent = 0]

Store == [uploads |-> uploads, order |-> order, attempts |-> attempts]

\* attempts of record id that have not settled
InFlight(id) == {a \in DOMAIN attempts : attempts[a].uploadId = id /\ attempts[a].pc # "done"}

Batches == UNION {[1..n -> Files] : n \in 0..MaxBatch}

\* ---- the aggregate view: usePendingUploads ----
\* the quotient of two non-negative numbers that Math.round receives is kept
\* as numerator and denominator; 0 / 0 is NaN and x / 0 is Infinity
Infinity == -3

\* a value that is neither undefined nor 0 is truthy
Truthy(x) == x # Undefined /\ x # 0

\* MathRound as Math.floor
MathRound_Floor(num, den) ==
  IF den = 0
    THEN (IF num = 0 THEN NaN ELSE Infinity)
    ELSE num \div den

\* Math.round(num / den): the nearest integer, halves rounded up
MathRound(num, den) ==
  IF den = 0
    THEN (IF num = 0 THEN NaN ELSE Infinity)
    ELSE (2 * num + den) \div (2 * den)

\* Math.min(x, y) for y an ordinary number
MathMin(x, y) ==
  IF x = NaN THEN NaN
  ELSE IF x = Infinity THEN y
  ELSE IF x < y THEN x ELSE y

\* ReduceStep accumulating the bytes still to transfer instead of the bytes
\* transferred
ReduceStep_Remaining(acc, upload) ==
  [uploaded |-> IF Truthy(upload.compressedSizeInBytes)
                  THEN acc.uploaded
                         + (upload.compressedSizeInBytes - upload.uploadSizeInBytes)
                  ELSE acc.uploaded,
   total |-> acc.total + (IF Truthy(upload.compressedSizeInBytes)
                            THEN upload.compressedSizeInBytes
                            ELSE upload.originalSizeInBytes)]

\* one step of the reduce callback
ReduceStep(acc, upload) ==
  [uploaded |-> IF Truthy(upload.compressedSizeInBytes)
                  THEN acc.uploaded + upload.uploadSizeInBytes
                  ELSE acc.uploaded,
   total |-> acc.total + (IF Truthy(upload.compressedSizeInBytes)
                            THEN upload.compressedSizeInBytes
                            ELSE upload.originalSizeInBytes)]

\* uploads.reduce(..., { total: 0, uploaded: 0 }) over the first n values
RECURSIVE Reduce(_, _, _)
Reduce(m, o, n) ==
  IF n = 0
    THEN [total |-> 0, uploaded |-> 0]
    ELSE ReduceStep(Reduce(m, o, n - 1), m[o[n]])

\* globalPercentage of the pending branch
GlobalPercentage(acc) == MathMin(MathRound(acc.uploaded * 100, acc.total), 100)

\* usePendingUploads without the early return for "nothing pending"
usePendingUploads_NoEarlyReturn(m, o) ==
  [isThereAnyPendingUploads |-> \E i \in DOMAIN o : m[o[i]].status = "progress",
   globalPercentage |-> GlobalPercentage(Reduce(m, o, Len(o)))]

\* the selector of usePendingUploads on the Map m with key order o
usePendingUploads(m, o) ==
  LET isThereAnyPendingUploads == \E i \in DOMAIN o : m[o[i]].status = "progress"
  IN IF ~isThereAnyPendingUploads
       THEN [isThereAnyPendingUploads |-> isThereAnyPendingUploads,
             globalPercentage |-> 100]
       ELSE [isThereAnyPendingUploads |-> isThereAnyPendingUploads,
             globalPercentage |-> GlobalPercentage(Reduce(m, o, Len(o)))]

Pending == usePendingUploads(uploads, order)
PendingNext == usePendingUploads(uploads', order')

\* ---- the collaborators: compressImage and uploadFileToStorage ----
\* the sizes of the files compressImage may resolve with
CompressedSizes == 0..MaxSize

\* the errors compressImage may reject with
CompressRejections == {OtherError}

\* the cumulative byte counts the transfer of attempt a may report next: none
\* once its signal is aborted, never less than the last report, never more
\* than the size of the file it was given
TransferReports(a) ==
  {n \in 0..MaxSize : /\ a \notin aborted
                      /\ n >= attempts[a].sent
                      /\ n <= attempts[a].compressedSize}

\* the url the transfer of attempt a resolves with: one per stored object
Url(a) == a

\* the transfer of attempt a may resolve unless its signal is aborted
TransferMayResolve(a) == a \notin aborted

\* the errors the transfer of attempt a may reject with: the cancellation
\* error once its signal is aborted, another error otherwise
TransferRejections(a) == IF a \in aborted THEN {CanceledError} ELSE {OtherError}

\* ---- initial state: the store after create() ----
Init ==
  /\ uploads = <<>>
  /\ order = <<>>
  /\ attempts = <<>>
  /\ aborted = {}
  /\ lateAbort = {}

\* ---- the store's API ----
addUploads(files) ==
  /\ Cardinality(DOMAIN uploads) + Len(files) <= MaxUploads
  /\ Len(attempts) + Len(files) <= MaxAttempts
  /\ LET st == AddLoop(Store, files, 1)
     IN /\ uploads' = st.uploads
        /\ order' = st.order
        /\ attempts' = st.attempts
  /\ UNCHANGED <<aborted, lateAbort>>

cancelUpload(uploadId) ==
  /\ IF uploadId \in DOMAIN uploads /\ uploads[uploadId].abortController # Undefined
       THEN LET ac == uploads[uploadId].abortController
            IN /\ aborted' = aborted \cup {ac}
               /\ lateAbort' = IF uploads[uploadId].status \in Settled /\ ac \notin aborted
                                 THEN lateAbort \cup {ac}
                                 ELSE lateAbort
       ELSE UNCHANGED <<aborted, lateAbort>>
  /\ UNCHANGED <<uploads, order, attempts>>

retryUpload(uploadId) ==
  /\ Len(attempts) < MaxAttempts
  /\ LET st == ProcessStart(Store, uploadId)
     IN /\ uploads' = st.uploads
        /\ order' = st.order
        /\ attempts' = st.attempts
  /\ UNCHANGED <<aborted, lateAbort>>

\* ---- the pipeline of one processUpload invocation a ----
\* compressImage resolves with a file of compressedSize bytes; the
\* continuation records the size and calls uploadFileToStorage
CompressResolve(a, compressedSize) ==
  /\ attempts[a].pc = "compress"
  /\ compressedSize \in CompressedSizes
  /\ uploads' = updateUpload(uploads, attempts[a].uploadId,
                             [compressedSizeInBytes |-> compressedSize])
  /\ attempts' = [attempts EXCEPT ![a].pc = "transfer",
                                  ![a].compressedSize = compressedSize]
  /\ UNCHANGED <<order, aborted, lateAbort>>

\* compressImage rejects; the catch block runs
CompressReject(a, error) ==
  /\ attempts[a].pc = "compress"
  /\ error \in CompressRejections
  /\ uploads' = updateUpload(uploads, attempts[a].uploadId,
                             [status |-> CatchStatus(error)])
  /\ attempts' = Return(attempts, a)
  /\ UNCHANGED <<order, aborted, lateAbort>>

\* uploadFileToStorage calls onProgress(sizeInBytes)
TransferProgress(a, sizeInBytes) ==
  /\ attempts[a].pc = "transfer"
  /\ sizeInBytes \in TransferReports(a)
  /\ uploads' = updateUpload(uploads, attempts[a].uploadId,
                             [uploadSizeInBytes |-> sizeInBytes])
  /\ attempts' = [attempts EXCEPT ![a].sent = sizeInBytes]
  /\ UNCHANGED <<order, aborted, lateAbort>>

\* uploadFileToStorage resolves with { url }
TransferResolve(a) ==
  /\ attempts[a].pc = "transfer"
  /\ TransferMayResolve(a)
  /\ uploads' = updateUpload(uploads, attempts[a].uploadId,
                             [status |-> "success", remoteUrl |-> Url(a)])
  /\ attempts' = Return(attempts, a)
  /\ UNCHANGED <<order, aborted, lateAbort>>

\* uploadFileToStorage rejects: with CanceledError once the signal is
\* aborted, with another error otherwise; the catch block runs
TransferReject(a, error) ==
  /\ attempts[a].pc = "transfer"
  /\ error \in TransferRejections(a)
  /\ uploads' = updateUpload(uploads, attempts[a].uploadId,
                             [status |-> CatchStatus(error)])
  /\ attempts' = Return(attempts, a)
  /\ UNCHANGED <<order, aborted, lateAbort>>

Next ==
  \/ \E files \in Batches : addUploads(files)
  \/ \E uploadId \in Ids : cancelUpload(uploadId)
  \/ \E uploadId \in Ids : retryUpload(uploadId)
  \/ \E a \in DOMAIN attempts : \E n \in 0..MaxSize : CompressResolve(a, n)
  \/ \E a \in DOMAIN attempts : \E e \in {CanceledError, OtherError} : CompressReject(a, e)
  \/ \E a \in DOMAIN attempts : \E n \in 0..MaxSize : TransferProgress(a, n)
  \/ \E a \in DOMAIN attempts : TransferResolve(a)
  \/ \E a \in DOMAIN attempts : \E e \in {CanceledError, OtherError} : TransferReject(a, e)

Spec == Init /\ [][Next]_vars

\* the promise attempt a awaits settles: compressImage or uploadFileToStorage
\* resolves or rejects
Advance(a) ==
  /\ a \in DOMAIN attempts
  /\ \/ \E n \in 0..MaxSize : CompressResolve(a, n)
     \/ \E e \in {CanceledError, OtherError} : CompressReject(a, e)
     \/ TransferResolve(a)
     \/ \E e \in {CanceledError, OtherError} : TransferReject(a, e)

\* Termination does not depend on byte counts: the specification for it
\* takes every file to be one byte long and to compress to one byte
OneByteFiles ==
  /\ \A id \in DOMAIN uploads :
        /\ uploads[id].originalSizeInBytes = 1
        /\ uploads[id].compressedSizeInBytes \in {Undefined, 1}
  /\ \A a \in DOMAIN attempts : attempts[a].compressedSize \in {Undefined, 1}

FairNext == Next /\ OneByteFiles'

\* the store with collaborators whose every call eventually settles
FairSpec ==
  /\ Init
  /\ [][FairNext]_vars
  /\ \A a \in 1..MaxAttempts : WF_vars(Advance(a) /\ OneByteFiles')

\* ---- vocabulary of the properties ----
\* cancelUpload(id) was invoked while the record was in progress and no
\* retryUpload(id) followed: the record's current controller is aborted, and
\* its first abort did not come while the record was settled
Cancelled(id) ==
  /\ uploads[id].abortController \in aborted
  /\ uploads[id].abortController \notin lateAbort

\* attempt a has settled in this step
Settles(a) == attempts[a].pc # "done" /\ attempts'[a].pc = "done"

\* this step is neither addUploads nor retryUpload: no pipeline was started
NoNewAttempt == Len(attempts') = Len(attempts)

\* C1: cancelling a record in progress leads to status 'canceled' and never
\* to 'success' (no retry after the cancel): after such a cancel the status
\* is never 'success', and once no attempt of the record is in flight the
\* status is 'canceled'.
C1_CancelYieldsCanceled ==
  \A id \in DOMAIN uploads :
    Cancelled(id) =>
      /\ uploads[id].status # "success"
      /\ (InFlight(id) = {} => uploads[id].status = "canceled")

\* C2: cancelUpload on a record that is already 'success', 'error' or
\* 'canceled' is a no-op: neither the call nor the step it triggers (the
\* rejection of the transfer whose signal the call aborted) changes a record.
C2_CancelSettledNoOp ==
  [][/\ \A id \in DOMAIN uploads :
          (uploads[id].status \in Settled /\ cancelUpload(id)) => uploads' = uploads
     /\ \A a \in DOMAIN attempts :
          (a \in lateAbort /\ attempts[a].pc = "transfer" /\ Settles(a))
             => uploads' = uploads]_vars

\* C3: a status changes only from 'progress' to a settled status when an
\* attempt of the record settles, or to 'progress' as the immediate effect of
\* retryUpload; a settled status does not change without a retry.
C3_StatusMachine ==
  [][\A id \in DOMAIN uploads :
       uploads'[id].status # uploads[id].status =>
         \/ /\ uploads[id].status = "progress"
            /\ uploads'[id].status \in Settled
            /\ \E a \in InFlight(id) : Settles(a)
         \/ /\ uploads'[id].status = "progress"
            /\ retryUpload(id)]_vars

\* C4: a record has a remote URL only if its status is 'success'.
C4_UrlOnlyOnSuccess ==
  \A id \in DOMAIN uploads :
    uploads[id].remoteUrl # Undefined => uploads[id].status = "success"

\* C5: addUploads(files) grows the collection by exactly Len(files), alters
\* no existing record, and leaves each new record with status 'progress',
\* uploadSizeInBytes 0, originalSizeInBytes equal to its file's size, no
\* compressed size and no remote URL.
C5_AddUploads ==
  [][\A files \in Batches :
       addUploads(files) =>
         LET n == Len(order)
         IN /\ Cardinality(DOMAIN uploads') = Cardinality(DOMAIN uploads) + Len(files)
            /\ Len(order') = n + Len(files)
            /\ \A id \in DOMAIN uploads : uploads'[id] = uploads[id]
            /\ \A i \in 1..Len(files) :
                 /\ order'[n + i] \notin DOMAIN uploads
                 /\ uploads'[order'[n + i]].file = files[i]
                 /\ uploads'[order'[n + i]].status = "progress"
                 /\ uploads'[order'[n + i]].uploadSizeInBytes = 0
                 /\ uploads'[order'[n + i]].originalSizeInBytes = files[i].size
                 /\ uploads'[order'[n + i]].compressedSizeInBytes = Undefined
                 /\ uploads'[order'[n + i]].remoteUrl = Undefined]_vars

\* a second addUploads call has returned: record 1, created by an earlier
\* call, has failed, and record 2 is as its call left it
C5_Witness ==
  /\ DOMAIN uploads = {1, 2}
  /\ uploads[1].status = "error"
  /\ uploads[1].originalSizeInBytes = 1
  /\ uploads[2].originalSizeInBytes = 2
  /\ uploads[2].abortController = 2
  /\ attempts[2].pc = "compress"

\* C6: retryUpload on a record that is 'error' or 'canceled' leaves it, when
\* the call returns, with status 'progress', uploadSizeInBytes 0, no
\* compressed size, no remote URL and a newly created abort controller.
C6_RetryResets ==
  [][\A id \in DOMAIN uploads :
       (uploads[id].status \in {"error", "canceled"} /\ retryUpload(id)) =>
          /\ uploads'[id].status = "progress"
          /\ uploads'[id].uploadSizeInBytes = 0
          /\ uploads'[id].compressedSizeInBytes = Undefined
          /\ uploads'[id].remoteUrl = Undefined
          /\ uploads'[id].abortController # uploads[id].abortController
          /\ uploads'[id].abortController \notin DOMAIN attempts
          /\ uploads'[id].abortController \notin aborted']_vars

\* retryUpload(1) has just returned on a record whose first attempt was
\* cancelled during its transfer and had settled before the retry
C6_Witness ==
  /\ DOMAIN uploads = {1}
  /\ Len(attempts) = 2
  /\ attempts[1].uploadId = 1 /\ attempts[1].pc = "done"
  /\ attempts[2].uploadId = 1 /\ attempts[2].pc = "compress"
  /\ 1 \in aborted \ lateAbort
  /\ uploads[1].status = "progress"
  /\ uploads[1].abortController = 2

\* C7: the pending flag is true exactly when some record has status
\* 'progress', and whenever it is false globalPercentage is 100.
C7_PendingFlag ==
  /\ Pending.isThereAnyPendingUploads
       = (\E id \in DOMAIN uploads : uploads[id].status = "progress")
  /\ ~Pending.isThereAnyPendingUploads => Pending.globalPercentage = 100

\* nothing is pending, and a failed record holds a partly transferred file
C7_Witness ==
  /\ DOMAIN uploads # {}
  /\ \A id \in DOMAIN uploads : uploads[id].status \in Settled
  /\ \E id \in DOMAIN uploads :
       /\ uploads[id].status = "error"
       /\ uploads[id].compressedSizeInBytes = 2
       /\ uploads[id].uploadSizeInBytes = 1
  /\ Pending.globalPercentage = 100

\* the sum of f over the identifiers in S
RECURSIVE SumOver(_, _)
SumOver(S, f) ==
  IF S = {}
    THEN 0
    ELSE LET x == CHOOSE y \in S : TRUE
         IN f[x] + SumOver(S \ {x}, f)

Min(x, y) == IF x < y THEN x ELSE y

\* T and U as the specification words them: a compressed size counts as
\* known as soon as it is present
KnownT ==
  SumOver(DOMAIN uploads,
          [id \in DOMAIN uploads |->
             IF uploads[id].compressedSizeInBytes # Undefined
               THEN uploads[id].compressedSizeInBytes
               ELSE uploads[id].originalSizeInBytes])
KnownU ==
  SumOver(DOMAIN uploads,
          [id \in DOMAIN uploads |->
             IF uploads[id].compressedSizeInBytes # Undefined
               THEN uploads[id].uploadSizeInBytes
               ELSE 0])

\* T and U with a compressed size of 0 counted as not known
NonZeroT ==
  SumOver(DOMAIN uploads,
          [id \in DOMAIN uploads |->
             IF uploads[id].compressedSizeInBytes \notin {Undefined, 0}
               THEN uploads[id].compressedSizeInBytes
               ELSE uploads[id].originalSizeInBytes])
NonZeroU ==
  SumOver(DOMAIN uploads,
          [id \in DOMAIN uploads |->
             IF uploads[id].compressedSizeInBytes \notin {Undefined, 0}
               THEN uploads[id].uploadSizeInBytes
               ELSE 0])

\* C8 as stated: while a record is in progress (and T > 0, so that the
\* quotient exists) globalPercentage = min(100, floor(100 * U / T)).
C8_FloorFormula ==
  (Pending.isThereAnyPendingUploads /\ KnownT > 0) =>
     Pending.globalPercentage = Min(100, (100 * KnownU) \div KnownT)

\* C8 amended: while a record is in progress globalPercentage is
\* min(100, 100 * U / T rounded to the nearest integer, halves up), with a
\* compressed size of 0 counted as not known; it is NaN when T = 0.
C8_RoundFormula ==
  Pending.isThereAnyPendingUploads =>
    LET p == Pending.globalPercentage
        T == NonZeroT
        U == NonZeroU
    IN IF T = 0
         THEN p = NaN
         ELSE \/ p = 100 /\ 200 * U + T >= 200 * T
              \/ /\ p \in 0..99
                 /\ 2 * T * p <= 200 * U + T
                 /\ 200 * U + T < 2 * T * (p + 1)

\* a pending state where 100 * U / T is 66.67: rounding gives 67, not 66
C8_Witness ==
  /\ Pending.isThereAnyPendingUploads
  /\ NonZeroT = 3
  /\ NonZeroU = 2
  /\ Pending.globalPercentage = 67

\* JavaScript's <, false as soon as an operand is NaN
Less(x, y) == x # NaN /\ y # NaN /\ x < y

AllInProgress(m) == DOMAIN m # {} /\ \A id \in DOMAIN m : m[id].status = "progress"

\* a step of the pipelines on a fixed set of records that all stay in progress
FixedSetStep ==
  /\ DOMAIN uploads' = DOMAIN uploads
  /\ NoNewAttempt
  /\ AllInProgress(uploads)
  /\ AllInProgress(uploads')

\* C9 as stated: for a fixed set of records that all remain in progress,
\* globalPercentage never decreases as the pipelines advance.
C9_Monotone ==
  [][FixedSetStep =>
       ~Less(PendingNext.globalPercentage, Pending.globalPercentage)]_vars

\* C9 amended: for a fixed set of records that all remain in progress,
\* globalPercentage does not decrease on a step that changes no record's
\* compressed size and lowers no record's uploadSizeInBytes.
C9_MonotoneInTransferred ==
  [][(/\ FixedSetStep
      /\ \A id \in DOMAIN uploads :
           /\ uploads'[id].compressedSizeInBytes = uploads[id].compressedSizeInBytes
           /\ uploads'[id].uploadSizeInBytes >= uploads[id].uploadSizeInBytes)
       => ~Less(PendingNext.globalPercentage, Pending.globalPercentage)]_vars

\* two records in progress, one fully transferred, the other half way
C9_Witness ==
  /\ DOMAIN uploads = {1, 2}
  /\ AllInProgress(uploads)
  /\ uploads[1].compressedSizeInBytes = 1 /\ uploads[1].uploadSizeInBytes = 1
  /\ uploads[2].compressedSizeInBytes = 2 /\ uploads[2].uploadSizeInBytes = 1
  /\ Pending.globalPercentage = 67

\* C10: uploadSizeInBytes is at most compressedSizeInBytes when that is
\* present, else at most originalSizeInBytes.
C10_TransferredWithinSize ==
  \A id \in DOMAIN uploads :
    uploads[id].uploadSizeInBytes <=
      (IF uploads[id].compressedSizeInBytes # Undefined
         THEN uploads[id].compressedSizeInBytes
         ELSE uploads[id].originalSizeInBytes)

\* C11: while a record is in progress its uploadSizeInBytes never decreases
\* from one store state to the next, except for the reset that retryUpload
\* performs.
C11_TransferredMonotone ==
  [][\A id \in DOMAIN uploads :
       (/\ uploads[id].status = "progress"
        /\ uploads'[id].status = "progress"
        /\ ~retryUpload(id))
         => uploads'[id].uploadSizeInBytes >= uploads[id].uploadSizeInBytes]_vars

\* C12: cancelUpload and retryUpload with an identifier that is not in the
\* collection leave the whole store unchanged and start no pipeline, and an
\* update addressed to an absent identifier leaves the Map unchanged.
C12_AbsentIdNoOp ==
  [][\A id \in Ids \ DOMAIN uploads :
       /\ cancelUpload(id) => UNCHANGED vars
       /\ retryUpload(id) => UNCHANGED vars
       /\ \A n \in 0..MaxSize :
            /\ updateUpload(uploads, id, [compressedSizeInBytes |-> n]) = uploads
            /\ updateUpload(uploads, id, [uploadSizeInBytes |-> n]) = uploads
       /\ \A st \in Settled : updateUpload(uploads, id, [status |-> st]) = uploads
       /\ updateUpload(uploads, id, ResetData(Len(attempts) + 1)) = uploads]_vars

\* identifier 2 is absent while record 1 exists with a pipeline running, and
\* a retry could still start a pipeline
C12_Witness ==
  /\ DOMAIN uploads = {1}
  /\ InFlight(1) # {}
  /\ Len(attempts) < MaxAttempts

\* the attempts made for record id
AttemptsOf(as, id) == {a \in DOMAIN as : as[a].uploadId = id}

StepOf(a) ==
  \/ \E n \in 0..MaxSize : CompressResolve(a, n)
  \/ \E e \in {CanceledError, OtherError} : CompressReject(a, e)
  \/ \E n \in 0..MaxSize : TransferProgress(a, n)
  \/ TransferResolve(a)
  \/ \E e \in {CanceledError, OtherError} : TransferReject(a, e)

\* C14: once retryUpload has started a new attempt, no step of an earlier
\* attempt of the record changes its status, sizes or remote URL.
C14_OnlyNewestWrites ==
  [][\A a \in DOMAIN attempts :
       (uploads[attempts[a].uploadId].abortController # a /\ StepOf(a)) =>
          /\ uploads'[attempts[a].uploadId].status
               = uploads[attempts[a].uploadId].status
          /\ uploads'[attempts[a].uploadId].uploadSizeInBytes
               = uploads[attempts[a].uploadId].uploadSizeInBytes
          /\ uploads'[attempts[a].uploadId].compressedSizeInBytes
               = uploads[attempts[a].uploadId].compressedSizeInBytes
          /\ uploads'[attempts[a].uploadId].remoteUrl
               = uploads[attempts[a].uploadId].remoteUrl]_vars

\* C15: one file is submitted and cancelled before any progress callback
\* has reported bytes, with no retry: from then on uploadSizeInBytes stays 0
\* and the status the attempt ends with is 'canceled'.
C15_CancelBeforeProgress ==
  [][(/\ DOMAIN uploads = {1}
      /\ Len(attempts) = 1
      /\ Cancelled(1)
      /\ uploads[1].uploadSizeInBytes = 0
      /\ NoNewAttempt)
       => /\ uploads'[1].uploadSizeInBytes = 0
          /\ attempts'[1].pc = "done" => uploads'[1].status = "canceled"]_vars

UploadFields == DOMAIN NewUpload([name |-> "a.png", size |-> 0])

\* the step changes no record but id, and in record id no field outside fs
OnlyChanges(id, fs) ==
  /\ \A x \in DOMAIN uploads \ {id} : uploads'[x] = uploads[x]
  /\ DOMAIN uploads'[id] = UploadFields
  /\ \A f \in UploadFields \ fs : uploads'[id][f] = uploads[id][f]

\* C16: a pipeline step for record X changes only the fields it supplies and
\* only in record X, and no step changes the name, file or originalSizeInBytes
\* of a record.
C16_UpdateFrame ==
  [][/\ \A a \in DOMAIN attempts :
          /\ (\E n \in 0..MaxSize : CompressResolve(a, n))
                => OnlyChanges(attempts[a].uploadId, {"compressedSizeInBytes"})
          /\ (\E n \in 0..MaxSize : TransferProgress(a, n))
                => OnlyChanges(attempts[a].uploadId, {"uploadSizeInBytes"})
          /\ TransferResolve(a)
                => OnlyChanges(attempts[a].uploadId, {"status", "remoteUrl"})
          /\ (\E e \in {CanceledError, OtherError} :
                 CompressReject(a, e) \/ TransferReject(a, e))
                => OnlyChanges(attempts[a].uploadId, {"status"})
     /\ \A id \in DOMAIN uploads :
          /\ retryUpload(id)
                => OnlyChanges(id, {"uploadSizeInBytes", "remoteUrl",
                                    "compressedSizeInBytes", "abortController",
                                    "status"})
          /\ cancelUpload(id) => uploads' = uploads
          /\ uploads'[id].name = uploads[id].name
          /\ uploads'[id].file = uploads[id].file
          /\ uploads'[id].originalSizeInBytes = uploads[id].originalSizeInBytes]_vars

\* record 1 is in its transfer with a byte reported while record 2 has failed
C16_Witness ==
  /\ DOMAIN uploads = {1, 2}
  /\ uploads[1].status = "progress"
  /\ uploads[1].compressedSizeInBytes = 2
  /\ uploads[1].uploadSizeInBytes = 1
  /\ uploads[2].status = "error"
  /\ uploads[2].originalSizeInBytes = 1

\* C17: the identifiers and their insertion order change only by addUploads
\* appending new identifiers; no other step adds, removes, duplicates or
\* reorders records.
C17_OnlyAddAppends ==
  [][/\ SubSeq(order', 1, Len(order)) = order
     /\ Len(order') >= Len(order)
     /\ DOMAIN uploads' = Range(order')
     /\ Cardinality(Range(order')) = Len(order')
     /\ \A files \in Batches :
          addUploads(files) => Len(order') = Len(order) + Len(files)
     /\ order' # order => \E files \in Batches : addUploads(files)]_vars

\* two records, created in order, have both ended: one transferred, one
\* cancelled
C17_Witness ==
  /\ order = <<1, 2>>
  /\ uploads[1].status = "success"
  /\ uploads[2].status = "canceled"

\* every record is settled and every attempt has ended
Quiescent ==
  /\ \A id \in DOMAIN uploads : uploads[id].status \in Settled
  /\ \A a \in DOMAIN attempts : attempts[a].pc = "done"

\* C18: when every compression and transfer call eventually settles (and
\* retries are finitely many), every record eventually reaches 'success',
\* 'error' or 'canceled' and no attempt remains unfinished.
C18_EventuallySettled == <>[]Quiescent

\* every attempt the bound allows has been made and has ended, one of them
\* by a failure
C18_Witness ==
  /\ Quiescent
  /\ Len(attempts) = MaxAttempts
  /\ \E id \in DOMAIN uploads : uploads[id].status = "error"

\* C19: while an attempt of a record is in flight the record's status is
\* 'progress', and at most one attempt per record is in flight.
C19_InFlightMeansProgress ==
  \A id \in DOMAIN uploads :
    /\ InFlight(id) # {} => uploads[id].status = "progress"
    /\ Cardinality(InFlight(id)) <= 1

\* C20: globalPercentage is an integer between 0 and 100 in every state.
C20_PercentageInRange == Pending.globalPercentage \in 0..100

TypeOK ==
  /\ DOMAIN uploads \subseteq Ids
  /\ \A id \in DOMAIN uploads : uploads[id].status \in Status
====
